---- MODULE Spec2Model ----
(***************************************************************************)
(* Model of analyzer.py: the series statistics (analyze_report_list), the  *)
(* salience classifier (is_salient), the salient-commit aggregation        *)
(* (find_salient_commits) and the two module-level thresholds.             *)
(*                                                                         *)
(* Numbers.  A measurement (time_elapsed) is a non-negative multiple of    *)
(* 1/Scale seconds and is held as the integer number of such units; a      *)
(* delta and a numeric threshold are held in the same unit.  A quotient    *)
(* (speedup) is held as the fraction [num, den], den > 0, and compared by  *)
(* cross-multiplication.  std_dev is held as its square (the sample        *)
(* variance), again a fraction: it is 0 exactly when std_dev is 0.0.       *)
(*                                                                         *)
(* Exceptions.  A Python call either returns a value or raises; both are   *)
(* the record [raised, value], raised = "none" for a normal return.        *)
(***************************************************************************)
EXTENDS Integers, Sequences, FiniteSets, TLC

\* ------------------------------------------------------------------ bounds
MaxLen == 3
MaxMeas == 7
AggMaxLen == 3
MaxSeries == 2
MaxReports == 4

\* --------------------------------------------------------- value domains
Scale == 2

Commits == {"c1", "c2"}
Tests == {"T1", "T2"}
Measurements == {0, 1, Scale, MaxMeas}
AggMeasurements == {Scale, MaxMeas}

Return(v) == [raised |-> "none", value |-> v]
Raise(e) == [raised |-> e, value |-> <<>>]

Num(t, v) == [type |-> t, val |-> v]
\* argparse type=str: the flag's text; val is the number the text denotes
Str(v) == [type |-> "str", val |-> v]

DefaultDelta == Num("int", 2 * Scale)
DefaultSpeedup == Num("float", 2 * Scale)

\* values a caller passes on the command line (text) or binds directly
CliDelta == {Str(3 * Scale)}
CliSpeedup == {Str(1 * Scale)}
BoundDelta == {Num("float", 3 * Scale)}
BoundSpeedup == {Num("float", 1)}

Frac(n, d) == [num |-> n, den |-> d]
FracEq(a, b) == a.num * b.den = b.num * a.den
\* a > v / Scale
FracGtVal(a, v) == a.num * Scale > v * a.den

VARIABLES DELTA_THRESHOLD, SPEEDUP_THRESHOLD, pc, error,
          reports, benchmark_statistics,
          commit_statistics, salient,
          statistics_list, result

vars == <<DELTA_THRESHOLD, SPEEDUP_THRESHOLD, pc, error,
          reports, benchmark_statistics,
          commit_statistics, salient,
          statistics_list, result>>

\* ------------------------------------------------------ pure computations
\* int(x) of a non-negative float: truncation
int(x) == x \div Scale

\* x / y on floats
truediv(x, y) == IF y = 0 THEN Raise("ZeroDivisionError") ELSE Return(Frac(x, y))

RECURSIVE SumSeq(_)
SumSeq(s) == IF s = <<>> THEN 0 ELSE Head(s) + SumSeq(Tail(s))

\* statistics.stdev: the sample standard deviation, here squared
stdev(runtimes) ==
    LET n == Len(runtimes)
        sq == [i \in 1..n |-> runtimes[i] * runtimes[i]]
    IN IF n < 2 THEN Raise("StatisticsError")
       ELSE Return(Frac(n * SumSeq(sq) - SumSeq(runtimes) * SumSeq(runtimes),
                        n * (n - 1) * Scale * Scale))

compute_std_deviation(rs) == stdev([i \in 1..Len(rs) |-> rs[i].time_elapsed])

speedup_of(current_runtime, next_runtime) ==
    IF int(next_runtime) # 0 THEN truediv(current_runtime, next_runtime)
    ELSE Return(Frac(0, 1))

\* the pair taken the other way round: the later report against the earlier
JUnitStatisticsOfNext(rs, i) ==
    [commit_id |-> rs[i + 1].commit_id,
     runtime |-> rs[i + 1].time_elapsed,
     speedup |-> speedup_of(rs[i].time_elapsed, rs[i + 1].time_elapsed).value,
     runtime_delta |-> rs[i + 1].time_elapsed - rs[i].time_elapsed]

JUnitStatistics(rs, i) ==
    [commit_id |-> rs[i].commit_id,
     runtime |-> rs[i].time_elapsed,
     speedup |-> speedup_of(rs[i].time_elapsed, rs[i + 1].time_elapsed).value,
     runtime_delta |-> rs[i].time_elapsed - rs[i + 1].time_elapsed]

\* if list_length >= 2, with a wrong bound
std_dev_guard_from_one(list_length) == list_length >= 1

std_dev_guard(list_length) == list_length >= 2

\* reports[0] of an empty list answered with an empty name
first_test_name_or_empty(rs) ==
    IF Len(rs) = 0 THEN Return("") ELSE Return(rs[1].test_name)

\* reports[0].report.test_name
first_test_name(rs) ==
    IF Len(rs) = 0 THEN Raise("IndexError") ELSE Return(rs[1].test_name)

analyze_report_list(rs) ==
    LET list_length == Len(rs)
        sd == IF std_dev_guard(list_length) THEN compute_std_deviation(rs)
              ELSE Return(Frac(0, 1))
        pairs == 1..(list_length - 1)
        tn == first_test_name(rs)
    IN IF sd.raised # "none" THEN Raise(sd.raised)
       ELSE IF \E i \in pairs :
                  speedup_of(rs[i].time_elapsed, rs[i + 1].time_elapsed).raised # "none"
            THEN Raise("ZeroDivisionError")
       ELSE IF tn.raised # "none" THEN Raise(tn.raised)
       ELSE Return([test_name |-> tn.value,
                    std_dev |-> sd.value,
                    delta_threshold |-> DELTA_THRESHOLD,
                    speedup_threshold |-> SPEEDUP_THRESHOLD,
                    junit_statistics |-> [i \in pairs |-> JUnitStatistics(rs, i)]])

\* float > threshold, where the threshold is whatever the global is bound to
gt_delta(x, t) == IF t.type = "str" THEN Raise("TypeError") ELSE Return(x > t.val)
gt_speedup(x, t) == IF t.type = "str" THEN Raise("TypeError") ELSE Return(FracGtVal(x, t.val))

is_salient(cs) ==
    LET a == gt_delta(cs.runtime_delta, DELTA_THRESHOLD)
    IN IF a.raised # "none" THEN a
       ELSE IF a.value THEN Return(TRUE)
       ELSE gt_speedup(cs.speedup, SPEEDUP_THRESHOLD)

\* utils.unpack: the statistic's fields as a dict; with the test name added and
\* the commit id (the key of the map) removed
unpack(cs) ==
    [commit_id |-> cs.commit_id, runtime |-> cs.runtime,
     speedup |-> cs.speedup, runtime_delta |-> cs.runtime_delta]

salience_record(cs, test_name) ==
    LET data == unpack(cs)
    IN [test_name |-> test_name, runtime |-> data.runtime,
        speedup |-> data.speedup, runtime_delta |-> data.runtime_delta]

EmptyDict == [c \in {} |-> <<>>]

\* result[rev_id] = [data] on both branches
add_record_overwriting(res, rev_id, data) ==
    IF rev_id \in DOMAIN res
    THEN [res EXCEPT ![rev_id] = <<data>>]
    ELSE (rev_id :> <<data>>) @@ res

\* insert(0, data) in place of append(data)
add_record_in_front(res, rev_id, data) ==
    IF rev_id \in DOMAIN res
    THEN [res EXCEPT ![rev_id] = <<data>> \o @]
    ELSE (rev_id :> <<data>>) @@ res

add_record(res, rev_id, data) ==
    IF rev_id \in DOMAIN res
    THEN [res EXCEPT ![rev_id] = Append(@, data)]
    ELSE (rev_id :> <<data>>) @@ res

\* the two nested loops as one pass over (test_name, commit_statistics) pairs
RECURSIVE Flatten(_)
Flatten(list) ==
    IF list = <<>> THEN <<>>
    ELSE LET bs == Head(list)
         IN [j \in 1..Len(bs.junit_statistics) |->
                [test_name |-> bs.test_name, cs |-> bs.junit_statistics[j]]]
            \o Flatten(Tail(list))

RECURSIVE salient_loop(_, _)
salient_loop(items, res) ==
    IF items = <<>> THEN Return(res)
    ELSE LET it == Head(items)
             s == is_salient(it.cs)
         IN IF s.raised # "none" THEN Raise(s.raised)
            ELSE IF s.value
                 THEN salient_loop(Tail(items),
                          add_record(res, it.cs.commit_id,
                                     salience_record(it.cs, it.test_name)))
                 ELSE salient_loop(Tail(items), res)

find_salient_commits(benchmark_statistics_list) ==
    salient_loop(Flatten(benchmark_statistics_list), EmptyDict)

\* ------------------------------------------------------------------ inputs
ReportLists(maxlen, meas, tests) ==
    UNION {{[i \in 1..n |-> [commit_id |-> f[i][1], test_name |-> t,
                              time_elapsed |-> f[i][2]]] :
              f \in [1..n -> Commits \X meas], t \in tests} : n \in 0..maxlen}

None == [type |-> "None", val |-> 0]

RECURSIVE TotalReports(_)
TotalReports(list) ==
    IF list = <<>> THEN 0
    ELSE Len(Head(list).junit_statistics) + 1 + TotalReports(Tail(list))

\* the test a file of reports belongs to: one test per file
TestOfFile(k) == IF k % 2 = 1 THEN "T1" ELSE "T2"

\* ------------------------------------------------------------------- state
Init ==
    /\ DELTA_THRESHOLD = DefaultDelta
    /\ SPEEDUP_THRESHOLD = DefaultSpeedup
    /\ pc = "start"
    /\ error = "none"
    /\ reports = <<>>
    /\ benchmark_statistics = <<>>
    /\ commit_statistics = <<>>
    /\ salient = "none"
    /\ statistics_list = <<>>
    /\ result = EmptyDict

\* __main__: the flags given replace the module's thresholds by their text
main_parse_args ==
    /\ pc = "start"
    /\ \E d \in CliDelta \cup {None}, s \in CliSpeedup \cup {None} :
          /\ DELTA_THRESHOLD' = IF d.type # "None" THEN d ELSE DELTA_THRESHOLD
          /\ SPEEDUP_THRESHOLD' = IF s.type # "None" THEN s ELSE SPEEDUP_THRESHOLD
    /\ pc' = "ready"
    /\ UNCHANGED <<error, reports, benchmark_statistics, commit_statistics,
                   salient, statistics_list, result>>

\* a caller of the module binds the two module-level names to other numbers
\* (once: the values bound are the only ones there are to bind)
set_thresholds ==
    /\ pc \in {"start", "ready", "analyzed"}
    /\ error = "none"
    /\ DELTA_THRESHOLD \notin BoundDelta
    /\ \E d \in BoundDelta, s \in BoundSpeedup :
          /\ DELTA_THRESHOLD' = d
          /\ SPEEDUP_THRESHOLD' = s
    /\ pc' = IF pc = "start" THEN "ready" ELSE pc
    /\ UNCHANGED <<error, reports, benchmark_statistics, commit_statistics,
                   salient, statistics_list, result>>

\* one call of analyze_report_list on a list of reports of one test
call_analyze_report_list ==
    /\ pc \in {"start", "ready"}
    /\ \E rs \in ReportLists(MaxLen, Measurements, Tests) :
          LET r == analyze_report_list(rs)
          IN /\ reports' = rs
             /\ error' = r.raised
             /\ benchmark_statistics' = r.value
    /\ pc' = "analyzed"
    /\ commit_statistics' = <<>>
    /\ salient' = "none"
    /\ UNCHANGED <<DELTA_THRESHOLD, SPEEDUP_THRESHOLD, statistics_list, result>>

\* one call of is_salient on a statistic of the series just computed
call_is_salient ==
    /\ pc = "analyzed"
    /\ error = "none"
    /\ \E i \in 1..Len(benchmark_statistics.junit_statistics) :
          LET cs == benchmark_statistics.junit_statistics[i]
              r == is_salient(cs)
          IN /\ commit_statistics' = cs
             /\ salient' = IF r.raised # "none" THEN r.raised
                            ELSE IF r.value THEN "True" ELSE "False"
    /\ pc' = "classified"
    /\ UNCHANGED <<DELTA_THRESHOLD, SPEEDUP_THRESHOLD, error, reports,
                   benchmark_statistics, statistics_list, result>>

\* analyze_junit_reports, one turn of its loop: a file's reports are analysed
\* and the statistics appended; an exception ends the run
analyze_junit_reports_step ==
    /\ pc \in {"start", "ready"}
    /\ error = "none"
    /\ Len(statistics_list) < MaxSeries
    /\ \E rs \in ReportLists(AggMaxLen, AggMeasurements,
                               {TestOfFile(Len(statistics_list) + 1)}) :
          LET r == analyze_report_list(rs)
          IN /\ TotalReports(statistics_list) + Len(rs) <= MaxReports
             /\ error' = r.raised
             /\ statistics_list' = IF r.raised = "none"
                                    THEN Append(statistics_list, r.value)
                                    ELSE statistics_list
    /\ pc' = "ready"
    /\ UNCHANGED <<DELTA_THRESHOLD, SPEEDUP_THRESHOLD, reports,
                   benchmark_statistics, commit_statistics, salient, result>>

\* analyze_junit_reports after its loop: the aggregation
call_find_salient_commits ==
    /\ pc \in {"start", "ready"}
    /\ error = "none"
    /\ LET r == find_salient_commits(statistics_list)
       IN /\ error' = r.raised
          /\ result' = IF r.raised = "none" THEN r.value ELSE result
    /\ pc' = "done"
    /\ UNCHANGED <<DELTA_THRESHOLD, SPEEDUP_THRESHOLD, reports,
                   benchmark_statistics, commit_statistics, salient,
                   statistics_list>>

\* the functions called one at a time
NextSeries ==
    \/ main_parse_args
    \/ set_thresholds
    \/ call_analyze_report_list
    \/ call_is_salient

SpecSeries == Init /\ [][NextSeries]_vars

\* a run over files of reports, ending in the aggregation
Next ==
    \/ main_parse_args
    \/ set_thresholds
    \/ analyze_junit_reports_step
    \/ call_find_salient_commits

Spec == Init /\ [][Next]_vars


\* ------------------------------------------------------------ properties
Analyzed == pc \in {"analyzed", "classified"}
Returned == Analyzed /\ error = "none"
Stats == benchmark_statistics.junit_statistics
Time(i) == reports[i].time_elapsed

\* Claim C1: for every adjacent pair of a series, the speedup is
\* measurement[i] / measurement[i+1] whenever measurement[i+1] is not zero
\* (values below 1 included) and 0 when it is zero, and the computation never
\* raises.
C1_SpeedupIsRatioUnlessNextZero ==
    Analyzed =>
        /\ error # "ZeroDivisionError"
        /\ error = "none" =>
             \A i \in 1..Len(Stats) :
                IF Time(i + 1) # 0
                THEN FracEq(Stats[i].speedup, Frac(Time(i), Time(i + 1)))
                ELSE Stats[i].speedup.num = 0

\* the numeric value of a threshold, whatever it is bound to
DeltaExceeds(cs, t) == cs.runtime_delta > t.val
SpeedupExceeds(cs, t) == FracGtVal(cs.speedup, t.val)

\* Claim C2: is_salient returns true exactly when the delta is strictly
\* greater than the delta threshold or the speedup is strictly greater than
\* the speedup threshold.
C2_SalientIffAboveAThreshold ==
    pc = "classified" =>
        (salient = "True" <=>
            \/ DeltaExceeds(commit_statistics, DELTA_THRESHOLD)
            \/ SpeedupExceeds(commit_statistics, SPEEDUP_THRESHOLD))

\* Claim C3: analyze_report_list on a series of length 0 ends in an error and
\* returns no statistics.
C3_EmptySeriesRaises ==
    (Analyzed /\ Len(reports) = 0) => error # "none"

C3_Witness == Analyzed /\ Len(reports) = 0 /\ error = "IndexError"

\* Claim C4: analyze_report_list on a series of length 1 returns statistics
\* with std_dev 0.0, no commit statistics, and the test name of the one report.
C4_SingleReportSeries ==
    (Analyzed /\ Len(reports) = 1) =>
        /\ error = "none"
        /\ benchmark_statistics.std_dev.num = 0
        /\ Len(Stats) = 0
        /\ benchmark_statistics.test_name = reports[1].test_name

C4_Witness ==
    /\ Returned
    /\ Len(reports) = 1
    /\ benchmark_statistics.test_name = "T2"
    /\ reports[1].time_elapsed = MaxMeas

\* Claim C5: a series of n >= 1 reports yields exactly n-1 commit statistics in
\* input order; the i-th carries the commit id and the measurement of report i
\* and delta = measurement[i] - measurement[i+1]; the last report yields none.
C5_OneStatisticPerAdjacentPair ==
    (Analyzed /\ Len(reports) >= 1) =>
        /\ error = "none"
        /\ Len(Stats) = Len(reports) - 1
        /\ \A i \in 1..(Len(reports) - 1) :
              /\ Stats[i].commit_id = reports[i].commit_id
              /\ Stats[i].runtime = Time(i)
              /\ Stats[i].runtime_delta = Time(i) - Time(i + 1)

C5_Witness ==
    /\ Returned
    /\ Len(reports) = 3
    /\ Len(Stats) = 2
    /\ reports[1].commit_id # reports[2].commit_id
    /\ Stats[1].runtime_delta < 0
    /\ Stats[2].runtime_delta > 0

\* the records under all keys of a map, counted
RECURSIVE CountRecords(_, _)
CountRecords(res, keys) ==
    IF keys = {} THEN 0
    ELSE LET k == CHOOSE x \in keys : TRUE
         IN Len(res[k]) + CountRecords(res, keys \ {k})

IsSalientItem(it) == is_salient(it.cs).value

Completed == pc = "done" /\ error = "none"

\* Claim C6: the records over all values of the returned map are as many as
\* the salient commit statistics over all input series (appended, never
\* overwritten, never deduplicated), and no key maps to an empty list.
C6_EverySalientStatisticKept ==
    Completed =>
        /\ CountRecords(result, DOMAIN result)
              = Len(SelectSeq(Flatten(statistics_list), IsSalientItem))
        /\ \A k \in DOMAIN result : Len(result[k]) >= 1

C6_Witness ==
    /\ Completed
    /\ Len(statistics_list) = 2
    /\ \E k \in DOMAIN result :
          /\ Len(result[k]) >= 2
          /\ \E i, j \in 1..Len(result[k]) : result[k][i].test_name # result[k][j].test_name

\* a statistic classified against the thresholds its own series records
OwnSalient(bs, cs) ==
    \/ DeltaExceeds(cs, bs.delta_threshold)
    \/ SpeedupExceeds(cs, bs.speedup_threshold)

RECURSIVE OwnFlatten(_)
OwnFlatten(list) ==
    IF list = <<>> THEN <<>>
    ELSE LET bs == Head(list)
         IN [j \in 1..Len(bs.junit_statistics) |->
                [test_name |-> bs.test_name, cs |-> bs.junit_statistics[j],
                 own |-> OwnSalient(bs, bs.junit_statistics[j])]]
            \o OwnFlatten(Tail(list))

RecordsOf(items, k) ==
    LET Mine(it) == it.cs.commit_id = k
        mine == SelectSeq(items, Mine)
    IN [i \in 1..Len(mine) |-> salience_record(mine[i].cs, mine[i].test_name)]

IsOwnSalient(it) == it.own

\* Claim C7: find_salient_commits classifies every statistic of a series
\* against the thresholds stored in that series' record, whatever the
\* module's thresholds are at aggregation time.
C7_ClassifiedAgainstOwnThresholds ==
    Completed =>
        LET own == SelectSeq(OwnFlatten(statistics_list), IsOwnSalient)
        IN /\ DOMAIN result = {own[i].cs.commit_id : i \in 1..Len(own)}
           /\ \A k \in DOMAIN result : result[k] = RecordsOf(own, k)

\* Claim C8: in a series of length >= 2 whose measurements are all the same
\* value m, every statistic has delta 0 and, when m is not zero (0 < m < 1
\* included), speedup 1.0.
C8_ConstantSeries ==
    (Returned /\ Len(reports) >= 2 /\ \A i \in 1..Len(reports) : Time(i) = Time(1)) =>
        \A i \in 1..Len(Stats) :
            /\ Stats[i].runtime_delta = 0
            /\ Time(1) # 0 => FracEq(Stats[i].speedup, Frac(1, 1))

\* Claim C9: under one commit id the records of one series keep the order of
\* that series' statistics, and the records of an earlier series precede those
\* of a later one.
C9_RecordsInInputOrder ==
    Completed =>
        LET flagged == SelectSeq(Flatten(statistics_list), IsSalientItem)
        IN \A k \in DOMAIN result : result[k] = RecordsOf(flagged, k)

C9_Witness ==
    /\ Completed
    /\ Len(statistics_list) = 1
    /\ \E k \in DOMAIN result :
          /\ Len(result[k]) = 2
          /\ result[k][1] # result[k][2]

\* Claim C10: the thresholds are 2 and 2.0 unless the caller overrides them;
\* after an override the run completes: classification with the overriding
\* values does not end in an error.
C10_OverrideCompletes ==
    /\ pc = "start" => (DELTA_THRESHOLD = Num("int", 2 * Scale)
                        /\ SPEEDUP_THRESHOLD = Num("float", 2 * Scale))
    /\ pc = "done" => error # "TypeError"

====
